---- MODULE Spec2Model ----
(***************************************************************************)
(* A model of Sources/CV8/wrappers.cpp: the C boundary between a host      *)
(* language and the V8 engine.  Host threads call the boundary operations  *)
(* on one isolate; the engine (an external collaborator) is modelled by    *)
(* the documented behaviour of the V8 API calls the wrappers make.         *)
(***************************************************************************)
EXTENDS Integers, Sequences, FiniteSets, TLC

\* ------------------------------------------------------------------ bounds
MaxHandles == 3        \* Global<Value> allocations in one run
MaxNested  == 1        \* guarded calls one dispatch invocation makes

Isolates == {1, 2}     \* the isolates createIsolate made
Threads == {1, 2}      \* the host threads that drive isolate 1
Other   == 3           \* the host thread that drives isolate 2
AllThreads == Threads \cup {Other}
\* The isolate a thread passes to the boundary functions, and the threads
\* that pass a given isolate.
Iso(t) == IF t = Other THEN 2 ELSE 1
ThreadsOn(i) == { t \in AllThreads : Iso(t) = i }
Names   == {1, 2}      \* function names: 1 is "f", 2 is "g"
Ids     == {7, 8}      \* call identifiers handed to createFunction
Keys    == {"a", "b", "c"}   \* property keys

\* ------------------------------------------------------------------ values
\* An engine value, as a Local<Value> designates it.  k is the kind, n the
\* number, s the code units of a string, o the object.
\* An object is named by what made it: "literal" is
\* ({a: 1, get b() { throw new Error() }}), "converter" is
\* ({valueOf() { x = 7; return 2 }, toString() { x = 8; return "s" }}),
\* "Error" is new Error(), "wrapper" is the wrapper of a primitive, and
\* "SyntaxError", "ReferenceError", "TypeError" are the engine's own.
Val(k, n, s, o) == [k |-> k, n |-> n, s |-> s, o |-> o]
Undefined    == Val("undefined", 0, <<>>, "")
Null         == Val("null", 0, <<>>, "")
Boolean(b)   == Val("boolean", IF b THEN 1 ELSE 0, <<>>, "")
Number(n)    == Val("number", n, <<>>, "")
String(s)    == Val("string", 0, s, "")
Object(o)    == Val("object", 0, <<>>, o)
\* Local<T>() : the handle that designates nothing (IsEmpty() is true).
Empty        == Val("empty", 0, <<>>, "")

\* Slots of the table of Global<Value> allocations.
Unallocated  == Val("unallocated", 0, <<>>, "")
Disposed     == Val("disposed", 0, <<>>, "")

IsEmpty(v) == v.k = "empty"

\* ------------------------------------------------------------------- UTF-8
\* The UTF-16 code units of a code point: itself, or a surrogate pair.
CodeUnits(cp) ==
    IF cp < 65536 THEN <<cp>>
    ELSE <<55296 + ((cp - 65536) \div 1024), 56320 + ((cp - 65536) % 1024)>>

\* The code units that valid UTF-8 bytes spell: sequences of one, two, three
\* and four bytes.
RECURSIVE Utf8Decode(_)
Utf8Decode(b) ==
    IF b = <<>> THEN <<>>
    ELSE IF b[1] < 128 THEN <<b[1]>> \o Utf8Decode(SubSeq(b, 2, Len(b)))
    ELSE IF b[1] < 224
         THEN <<(b[1] - 192) * 64 + (b[2] - 128)>> \o Utf8Decode(SubSeq(b, 3, Len(b)))
    ELSE IF b[1] < 240
         THEN <<(b[1] - 224) * 4096 + (b[2] - 128) * 64 + (b[3] - 128)>>
                  \o Utf8Decode(SubSeq(b, 4, Len(b)))
    ELSE CodeUnits((b[1] - 240) * 262144 + (b[2] - 128) * 4096
                       + (b[3] - 128) * 64 + (b[4] - 128))
             \o Utf8Decode(SubSeq(b, 5, Len(b)))

\* String::NewFromUtf8(isolate, utf8)
NewFromUtf8(b) == String(Utf8Decode(b))

\* The UTF-8 bytes of one code point.
Utf8Bytes(cp) ==
    IF cp < 128 THEN <<cp>>
    ELSE IF cp < 2048 THEN <<192 + (cp \div 64), 128 + (cp % 64)>>
    ELSE IF cp < 65536
         THEN <<224 + (cp \div 4096), 128 + ((cp \div 64) % 64), 128 + (cp % 64)>>
    ELSE <<240 + (cp \div 262144), 128 + ((cp \div 4096) % 64),
           128 + ((cp \div 64) % 64), 128 + (cp % 64)>>

IsLead(u)  == u \in 55296..56319
IsTrail(u) == u \in 56320..57343

\* String::WriteUtf8, as String::Utf8Value applies it: a surrogate pair is
\* one code point of four bytes, any other code unit a code point of its own.
RECURSIVE Utf8Encode(_)
Utf8Encode(s) ==
    IF s = <<>> THEN <<>>
    ELSE IF Len(s) >= 2 /\ IsLead(s[1]) /\ IsTrail(s[2])
         THEN Utf8Bytes(65536 + (s[1] - 55296) * 1024 + (s[2] - 56320))
                  \o Utf8Encode(SubSeq(s, 3, Len(s)))
    ELSE Utf8Bytes(s[1]) \o Utf8Encode(SubSeq(s, 2, Len(s)))

\* ----------------------------------------------------------------- scripts
\* Source texts handed to evaluate.  kind "lit" is an expression without
\* effect, "bad" does not compile, "set" assigns the global variable x, "get"
\* reads it, "call" calls the global function named n with the arguments args.
Src(kind, v, n, args) == [kind |-> kind, v |-> v, n |-> n, args |-> args]
NoSrc     == Src("none", Undefined, 0, <<>>)
SrcObject == Src("lit", Object("literal"), 0, <<>>)  \* ({a: 1, get b() {throw new Error()}})
SrcBad    == Src("bad", Undefined, 0, <<>>)          \* {
SrcSet    == Src("set", Number(5), 0, <<>>)          \* x = 5
SrcGet    == Src("get", Undefined, 0, <<>>)          \* x
SrcCallF  == Src("call", Undefined, 1, <<Number(1), String(<<120>>)>>) \* f(1, "x")
SrcCallG  == Src("call", Undefined, 2, <<>>)         \* g()
\* ({valueOf() { x = 7; return 2 }, toString() { x = 8; return "s" }})
SrcConverter == Src("lit", Object("converter"), 0, <<>>)
\* f({valueOf() { x = 7; return 2 }, toString() { x = 8; return "s" }})
SrcCallConverter == Src("call", Undefined, 1, <<Object("converter")>>)
\* A string literal, by the UTF-8 bytes between its quotes: the empty string,
\* "ok", U+00E9, U+20AC and U+1F600.
Literals == { <<>>, <<111, 107>>, <<195, 169>>, <<226, 130, 172>>,
              <<240, 159, 152, 128>> }
SrcText(b) == Src("lit", NewFromUtf8(b), 0, <<>>)

\* ------------------------------------------------------------------- state
VARIABLES
    lockOwner,   \* per isolate: the thread that owns its Locker mutex, 0 if none
    guard,       \* per thread: its live RAII objects, oldest first
    pc,          \* per thread: where it is in its boundary call
    op,          \* per thread: the boundary call from the host in progress
    nop,         \* per thread: the guarded call its dispatch function makes
    nested,      \* per thread: guarded calls made by the running dispatch
    tmplState,   \* per isolate: its Global<ObjectTemplate>: "none", "live", "disposed"
    slots,       \* per isolate: the template's function slots: name -> call id, 0 if unset
    ctxState,    \* per isolate: its Global<Context>: "none", "live", "disposed"
    ctxFuncs,    \* per isolate: functions of the context the handle designates
    ctxGlobal,   \* per isolate: the global variable x of that context, 0 if not defined
    handles,     \* per isolate: its Global<Value> allocations, by address
    sink,        \* per thread: the ReturnValue of the running callback
    calls,       \* per thread: invocations of swiftCallback in this evaluate
    want,        \* per thread: the last setReturnValue* request of the dispatch
    isoState,    \* per isolate: "live", or "disposed" after disposeIsolate
    buffer,      \* the host's destination buffer for copyUtf8String
    res,         \* the call that returned in the last step, and what it gave
    touched,     \* calls that in the last step touched the isolate unguarded
    ranEmpty,    \* the last step applied Run to an empty Local<Script>
    eff          \* what else the last step did

vars == << lockOwner, guard, pc, op, nop, nested, tmplState, slots, ctxState,
           ctxFuncs, ctxGlobal, handles, sink, calls, want, isoState, buffer,
           res, touched, ranEmpty, eff >>

\* A boundary call in progress: its name and, for an evaluate that is inside
\* a callback, the script and whether its exception out-parameter is nullptr.
Op(name, src, excNull) == [name |-> name, src |-> src, excNull |-> excNull]
NoOp == Op("none", NoSrc, FALSE)

\* A request the dispatch function makes of a setReturnValue* operation: the
\* operation and the boolean, number or text (code units) it means to return.
Want(set, n, s) == [set |-> set, n |-> n, s |-> s]
NoWant == Want("none", 0, <<>>)

\* What a call that returned was given and gave: the thread, the function, its
\* arguments (script, value handle, key, whether exception is nullptr), the
\* returned pointer or number (0 is nullptr), whether *exception was written
\* and with which pointer, and for an evaluate the invocations of
\* swiftCallback it made and the last request of the dispatch function.
Res(t, name, src, h, key, excNull, ret, wrote, exc, cs, w) ==
    [t |-> t, name |-> name, src |-> src, h |-> h, key |-> key,
     excNull |-> excNull, ret |-> ret, wrote |-> wrote, exc |-> exc,
     calls |-> cs, want |-> w]
NoRes == Res(0, "none", NoSrc, 0, "", FALSE, 0, FALSE, 0, <<>>, NoWant)
\* The result of a call that has no out-parameter and makes no callback.
Plain(t, name, h, ret) ==
    Res(t, name, NoSrc, h, "", FALSE, ret, FALSE, 0, <<>>, NoWant)

\* The destination the host allocates after getUtf8StringLength: the handle
\* it measured, the length it was given, and the bytes of the allocation.
Buffer(h, n, bytes) == [h |-> h, n |-> n, bytes |-> bytes]
NoBuffer == Buffer(0, 0, <<>>)

\* What else a step did: the RAII objects the call that returned constructed
\* and the order their destructors ran in, what the step misused (a released
\* resource it used, a resource in use it released), whether an introspection
\* ran script code, and the count a copyUtf8String was given.
Eff(acq, rel, misused, ran, count) ==
    [acquired |-> acq, released |-> rel, misused |-> misused, ran |-> ran,
     count |-> count]
NoEff == Eff(<<>>, <<>>, {}, FALSE, 0)

Init ==
    /\ lockOwner = [i \in Isolates |-> 0]
    /\ guard = [t \in AllThreads |-> <<>>]
    /\ pc = [t \in AllThreads |-> "idle"]
    /\ op = [t \in AllThreads |-> NoOp]
    /\ nop = [t \in AllThreads |-> "none"]
    /\ nested = [t \in AllThreads |-> 0]
    /\ tmplState = [i \in Isolates |-> "none"]
    /\ slots = [i \in Isolates |-> [n \in Names |-> 0]]
    /\ ctxState = [i \in Isolates |-> "none"]
    /\ ctxFuncs = [i \in Isolates |-> [n \in Names |-> 0]]
    /\ ctxGlobal = [i \in Isolates |-> 0]
    /\ handles = [i \in Isolates |-> [h \in 1..MaxHandles |-> Unallocated]]
    /\ sink = [t \in AllThreads |-> Undefined]
    /\ calls = [t \in AllThreads |-> <<>>]
    /\ want = [t \in AllThreads |-> NoWant]
    /\ isoState = [i \in Isolates |-> "live"]
    /\ buffer = NoBuffer
    /\ res = NoRes
    /\ touched = {}
    /\ ranEmpty = FALSE
    /\ eff = NoEff

\* ---------------------------------------------------------- RAII and guard
Range(f) == { f[i] : i \in DOMAIN f }

\* A lock that lets every thread in.
LockerNeverBlocks(t) == TRUE
\* A lock that is not recursive: its owner waits for itself.
LockerNotRecursive(t) == lockOwner[Iso(t)] = 0

\* One lock for the process: a thread waits while any isolate is owned by
\* another thread.
LockerOfProcess(t) == \A i \in Isolates : lockOwner[i] \in {0, t}

\* Locker::Locker: blocks while another thread owns the isolate; a thread that
\* owns it already passes and its new Locker does not own the mutex.
LockerCanEnter(t) == lockOwner[Iso(t)] \in {0, t}
LockerObject(t)   == IF lockOwner[Iso(t)] = t THEN "Locker" ELSE "Locker+"

\* Destructors that never give the mutex back.
OwnerKept(t, stk, base) == lockOwner[Iso(t)]

\* The destructors of the objects above position base, newest first: only a
\* Locker that took the mutex gives it back.
OwnerAfterUnwind(t, stk, base) ==
    IF \E i \in (base + 1)..Len(stk) : stk[i] = "Locker+"
    THEN 0 ELSE lockOwner[Iso(t)]

\* A guard that opens its HandleScope before it enters the isolate.
ScopedHandleFirst(stk) == stk \o << "HandleScope", "Isolate::Scope" >>

\* The objects a GlobalValue, createTemplate, createContext and createFunction
\* construct after their Locker, and those evaluate and getProperty construct.
Scoped(stk)       == stk \o << "Isolate::Scope", "HandleScope" >>
TryCatchOn(stk)   == stk \o << "TryCatch" >>
ContextScoped(stk) == stk \o << "Context::Scope" >>

\* The discipline of an engine call made by thread t under the objects stk:
\* the isolate is locked by t, entered, and a HandleScope is open.
InGuard(t, stk) ==
    /\ lockOwner[Iso(t)] = t
    /\ "Isolate::Scope" \in Range(stk)
    /\ "HandleScope" \in Range(stk)
Touch(t, name, stk) == IF InGuard(t, stk) THEN {} ELSE {name}

\* ------------------------------------------------------- Global<Value> table
Free(hs)      == { h \in DOMAIN hs : hs[h].k = "unallocated" }
Live(hs)      == { h \in DOMAIN hs : hs[h].k \notin {"unallocated", "disposed"} }
NewGlobal(hs) == CHOOSE h \in Free(hs) : \A g \in Free(hs) : h <= g

\* new Global<Value>(isolate, v): the allocation's address and the table after.
\* A Global made from an empty Local designates nothing.
Promote(hs, v) == [ptr |-> NewGlobal(hs), hs |-> [hs EXCEPT ![NewGlobal(hs)] = v]]

\* A dereference that moves the referent out and leaves the Global empty.
GlobalGetAndReset(hs, h) == [v |-> hs[h], hs |-> [hs EXCEPT ![h] = Empty]]

\* GlobalValue::operator* and operator->, value->Get(isolate): a Local for
\* what the Global designates, and the table after; the Global is as it was.
GlobalGet(hs, h) == [v |-> hs[h], hs |-> hs]

\* ------------------------------------------------------- entering, returning
\* A thread calls a guarded boundary function, from the host (pc "idle") or
\* from its dispatch function (pc "dispatch"): it stands before the Locker
\* that the function constructs first.
Call(t, name) ==
    /\ pc[t] \in {"idle", "dispatch"}
    /\ isoState[Iso(t)] = "live"
    /\ IF pc[t] = "idle"
       THEN /\ pc' = [pc EXCEPT ![t] = "calling"]
            /\ op' = [op EXCEPT ![t] = Op(name, NoSrc, FALSE)]
            /\ UNCHANGED << nop, nested >>
       ELSE /\ nested[t] < MaxNested
            /\ pc' = [pc EXCEPT ![t] = "ncalling"]
            /\ nop' = [nop EXCEPT ![t] = name]
            /\ nested' = [nested EXCEPT ![t] = @ + 1]
            /\ UNCHANGED op
    /\ res' = NoRes /\ touched' = {} /\ ranEmpty' = FALSE
    /\ eff' = NoEff
    /\ UNCHANGED << isoState, buffer >>
    /\ UNCHANGED << lockOwner, guard, tmplState, slots, ctxState, ctxFuncs,
                    ctxGlobal, handles, sink, calls, want >>

\* The Locker is constructed: the thread owns the isolate.
Lock(t) ==
    /\ pc[t] \in {"calling", "ncalling"}
    /\ LockerCanEnter(t)
    /\ guard' = [guard EXCEPT ![t] = Append(@, LockerObject(t))]
    /\ lockOwner' = [lockOwner EXCEPT ![Iso(t)] = t]
    /\ pc' = [pc EXCEPT ![t] = IF pc[t] = "calling" THEN "locked" ELSE "nlocked"]
    /\ res' = NoRes /\ touched' = {} /\ ranEmpty' = FALSE
    /\ eff' = NoEff
    /\ UNCHANGED << isoState, buffer >>
    /\ UNCHANGED << op, nop, nested, tmplState, slots, ctxState, ctxFuncs,
                    ctxGlobal, handles, sink, calls, want >>

\* The function a thread is inside, past its Locker.
Inside(t) == IF pc[t] = "locked" THEN op[t].name
             ELSE IF pc[t] = "nlocked" THEN nop[t] ELSE "none"

\* The position in guard[t] below the Locker of the call in progress.
Base(t) ==
    CHOOSE b \in 0..(Len(guard[t]) - 1) :
        /\ guard[t][b + 1] \in {"Locker", "Locker+"}
        /\ \A i \in (b + 2)..Len(guard[t]) : guard[t][i] \notin {"Locker", "Locker+"}

\* The objects the call in progress has constructed, oldest first, when stk
\* is all its thread has; the order their destructors run in at its return,
\* the reverse of construction.
Constructed(t, stk) == SubSeq(stk, Base(t) + 1, Len(stk))
Destroyed(objs) == [i \in 1..Len(objs) |-> objs[Len(objs) + 1 - i]]
Unwound(t, stk) ==
    Eff(Constructed(t, stk), Destroyed(Constructed(t, stk)), {}, FALSE, 0)

\* The function returns: the stack objects of this call are destroyed, and
\* the thread is back in the host, or in the dispatch function that called.
Return(t, r, e) ==
    /\ lockOwner' = [lockOwner EXCEPT ![Iso(t)] = 
                          OwnerAfterUnwind(t, guard[t], Base(t))]
    /\ guard' = [guard EXCEPT ![t] = SubSeq(@, 1, Base(t))]
    /\ IF pc[t] = "nlocked"
       THEN /\ pc' = [pc EXCEPT ![t] = "dispatch"]
            /\ nop' = [nop EXCEPT ![t] = "none"]
            /\ UNCHANGED op
       ELSE /\ pc' = [pc EXCEPT ![t] = "idle"]
            /\ op' = [op EXCEPT ![t] = NoOp]
            /\ UNCHANGED nop
    /\ res' = r
    /\ eff' = e

\* The process dies inside the call: nothing returns, and no thread runs on.
Crash ==
    /\ pc' = [u \in AllThreads |-> "dead"]
    /\ res' = NoRes
    /\ eff' = NoEff
    /\ UNCHANGED << lockOwner, guard, op, nop >>

crashed == \E u \in AllThreads : pc[u] = "dead"

\* --------------------------------------------- createTemplate, createContext
CreateTemplateCall(t) ==
    /\ pc[t] = "idle"
    /\ tmplState[Iso(t)] = "none"
    /\ \A u \in ThreadsOn(Iso(t)) : op[u].name # "createTemplate"
    /\ Call(t, "createTemplate")

CreateTemplate(t) ==
    /\ Inside(t) = "createTemplate"
    /\ touched' = Touch(t, "createTemplate", Scoped(guard[t]))
    /\ tmplState' = [tmplState EXCEPT ![Iso(t)] = "live"]
    /\ slots' = [slots EXCEPT ![Iso(t)] = [n \in Names |-> 0]]
    /\ Return(t, Plain(t, "createTemplate", 0, 1), Unwound(t, Scoped(guard[t])))
    /\ ranEmpty' = FALSE
    /\ UNCHANGED << isoState, buffer >>
    /\ UNCHANGED << nested, ctxState, ctxFuncs, ctxGlobal, handles, sink,
                    calls, want >>

CreateContextCall(t) ==
    /\ pc[t] = "idle"
    /\ tmplState[Iso(t)] = "live" /\ ctxState[Iso(t)] = "none"
    /\ \A u \in ThreadsOn(Iso(t)) : op[u].name # "createContext"
    /\ Call(t, "createContext")

\* A context made without the template: its global object has no functions.
ContextNewUnbound(sl, oldX) == [funcs |-> [n \in Names |-> 0], x |-> 0]

\* Context::New(isolate, NULL, globalTemplate, globalObject): a context whose
\* global object is made from the template.  The global object handed in, if
\* any, keeps its identity only: its state is completely reset.
ContextNew(sl, oldX) == [funcs |-> sl, x |-> 0]

CreateContext(t) ==
    /\ Inside(t) = "createContext"
    /\ touched' = Touch(t, "createContext", Scoped(guard[t]))
    /\ ctxState' = [ctxState EXCEPT ![Iso(t)] = "live"]
    /\ ctxFuncs' = [ctxFuncs EXCEPT ![Iso(t)] = ContextNew(slots[Iso(t)], 0).funcs]
    /\ ctxGlobal' = [ctxGlobal EXCEPT ![Iso(t)] = ContextNew(slots[Iso(t)], 0).x]
    /\ Return(t, Plain(t, "createContext", 0, 1), Unwound(t, Scoped(guard[t])))
    /\ ranEmpty' = FALSE
    /\ UNCHANGED << isoState, buffer >>
    /\ UNCHANGED << nested, tmplState, slots, handles, sink, calls, want >>

\* ------------------------------------------------------------ the engine
\* Script::Compile(source): the script, or an empty handle and a SyntaxError
\* pending in the TryCatch.
Compile(src) ==
    IF src.kind = "bad"
    THEN [script |-> "empty", exc |-> Object("SyntaxError")]
    ELSE [script |-> "compiled", exc |-> Empty]

\* Whether running src reaches a function made from a FunctionTemplate.
CallsHost(src, funcs) == src.kind = "call" /\ funcs[src.n] # 0

\* script->Run(context) of a compiled script that reaches no host function:
\* the completion value, or an empty result and the exception thrown, and the
\* global variable x afterwards.
Run(src, x) ==
    CASE src.kind = "lit" -> [result |-> src.v, exc |-> Empty, x |-> x]
      [] src.kind = "set" -> [result |-> src.v, exc |-> Empty, x |-> src.v.n]
      [] src.kind = "get" /\ x # 0 -> [result |-> Number(x), exc |-> Empty, x |-> x]
      [] OTHER -> [result |-> Empty, exc |-> Object("ReferenceError"), x |-> x]

\* ---------------------------------------------------------------- evaluate
\* A tail that returns nullptr on an empty result and never writes *exception.
DeliverDropsException(hs, result, exc, excNull) ==
    IF IsEmpty(result)
    THEN [hs |-> hs, ret |-> 0, wrote |-> FALSE, exc |-> 0]
    ELSE [hs |-> Promote(hs, result).hs, ret |-> Promote(hs, result).ptr,
          wrote |-> FALSE, exc |-> 0]

\* A tail that clears *exception before it returns a result.
DeliverClearsException(hs, result, exc, excNull) ==
    IF IsEmpty(result)
    THEN IF ~excNull
         THEN [hs |-> Promote(hs, exc).hs, ret |-> 0, wrote |-> TRUE,
               exc |-> Promote(hs, exc).ptr]
         ELSE [hs |-> hs, ret |-> 0, wrote |-> FALSE, exc |-> 0]
    ELSE [hs |-> Promote(hs, result).hs, ret |-> Promote(hs, result).ptr,
          wrote |-> ~excNull, exc |-> 0]

\* The tail of evaluate and of getProperty: on an empty result the exception
\* of the TryCatch goes to *exception if the caller gave a place for it and
\* nullptr is returned; otherwise the result is promoted and returned.
Deliver(hs, result, exc, excNull) ==
    IF IsEmpty(result)
    THEN IF ~excNull
         THEN [hs |-> Promote(hs, exc).hs, ret |-> 0, wrote |-> TRUE,
               exc |-> Promote(hs, exc).ptr]
         ELSE [hs |-> hs, ret |-> 0, wrote |-> FALSE, exc |-> 0]
    ELSE [hs |-> Promote(hs, result).hs, ret |-> Promote(hs, result).ptr,
          wrote |-> FALSE, exc |-> 0]

\* A loop that fills values from its last element down.
RECURSIVE PromoteArgsReversed(_, _, _)
PromoteArgsReversed(hs, args, i) ==
    IF i > Len(args) THEN [values |-> <<>>, hs |-> hs]
    ELSE LET p    == Promote(hs, args[Len(args) + 1 - i])
             rest == PromoteArgsReversed(p.hs, args, i + 1)
         IN  [values |-> <<p.ptr>> \o rest.values, hs |-> rest.hs]

\* callback: the loop that promotes the arguments, in order.
RECURSIVE PromoteArgs(_, _, _)
PromoteArgs(hs, args, i) ==
    IF i > Len(args) THEN [values |-> <<>>, hs |-> hs]
    ELSE LET p    == Promote(hs, args[i])
             rest == PromoteArgs(p.hs, args, i + 1)
         IN  [values |-> <<p.ptr>> \o rest.values, hs |-> rest.hs]

\* One invocation of swiftCallback as the dispatch function receives it: the
\* call id, the array of argument handles and its length; seen is what the
\* handles designate at that moment.
Invocation(id, values, argc, hs) ==
    [callId |-> id, values |-> values, argc |-> argc,
     seen |-> [i \in 1..Len(values) |-> hs[values[i]]]]

\* args.Data()->Int32Value() of the function called
CallData(funcs, n) == funcs[n]

EvaluateCall(t) ==
    /\ pc[t] = "idle"
    /\ ctxState[Iso(t)] = "live"
    /\ Free(handles[Iso(t)]) # {}
    /\ Call(t, "evaluate")

EvaluateReturn(t, src, excNull, d, cs, w, stk) ==
    /\ handles' = [handles EXCEPT ![Iso(t)] = d.hs]
    /\ Return(t, Res(t, "evaluate", src, 0, "", excNull, d.ret, d.wrote, d.exc,
                     cs, w), Unwound(t, stk))

\* evaluate of one of the scripts S, up to its return or up to the call of a
\* host function.
Evaluate(t, S) ==
    /\ Inside(t) = "evaluate"
    /\ \E src \in S, excNull \in BOOLEAN :
        /\ Cardinality(Free(handles[Iso(t)])) >= Len(src.args) + 1
        /\ LET stk0 == TryCatchOn(guard[t])
               stk  == ContextScoped(Scoped(stk0))
               c    == Compile(src)
           IN  /\ touched' = Touch(t, "evaluate", stk0) \cup Touch(t, "evaluate", stk)
               /\ ranEmpty' = (c.script = "empty")
               /\ UNCHANGED << isoState, buffer >>
               /\ IF c.script = "empty"
                  THEN \* script->Run on an empty Local<Script>: a null dereference
                       /\ \/ Crash /\ UNCHANGED handles
                          \/ /\ EvaluateReturn(t, src, excNull,
                                   Deliver(handles[Iso(t)], Empty, c.exc,
                                           excNull),
                                   <<>>, NoWant, stk)
                       /\ UNCHANGED << ctxGlobal, sink, calls, want, nested >>
                  ELSE IF CallsHost(src, ctxFuncs[Iso(t)])
                  THEN \* callback, up to its call of swiftCallback
                       /\ LET p == PromoteArgs(handles[Iso(t)], src.args, 1)
                          IN  /\ handles' = [handles EXCEPT ![Iso(t)] = p.hs]
                              /\ calls' = [calls EXCEPT ![t] =
                                    <<Invocation(CallData(ctxFuncs[Iso(t)], src.n),
                                                 p.values, Len(src.args), p.hs)>>]
                       /\ guard' = [guard EXCEPT ![t] = stk \o << "HandleScope" >>]
                       /\ op' = [op EXCEPT ![t] = Op("evaluate", src, excNull)]
                       /\ sink' = [sink EXCEPT ![t] = Undefined]
                       /\ want' = [want EXCEPT ![t] = NoWant]
                       /\ nested' = [nested EXCEPT ![t] = 0]
                       /\ pc' = [pc EXCEPT ![t] = "dispatch"]
                       /\ res' = NoRes /\ eff' = NoEff
                       /\ UNCHANGED << lockOwner, nop, ctxGlobal >>
                  ELSE /\ LET r == Run(src, ctxGlobal[Iso(t)])
                          IN  /\ ctxGlobal' = [ctxGlobal EXCEPT ![Iso(t)] = r.x]
                              /\ EvaluateReturn(t, src, excNull,
                                    Deliver(handles[Iso(t)], r.result, r.exc,
                                            excNull),
                                    <<>>, NoWant, stk)
                       /\ UNCHANGED << sink, calls, want, nested >>
    /\ UNCHANGED << tmplState, slots, ctxState, ctxFuncs >>

\* A callback that deletes the Globals it made for the arguments.
CallbackExitDeletes(hs, values) ==
    [h \in DOMAIN hs |-> IF h \in Range(values) /\ h \in Live(hs)
                         THEN Disposed ELSE hs[h]]

\* The end of callback: the array values goes out of scope, and the Globals
\* its elements point at are not deleted.
CallbackExit(hs, values) == hs

\* swiftCallback returns: callback returns, the call expression takes the
\* ReturnValue, the script completes with it and evaluate returns.
CallbackReturn(t) ==
    /\ pc[t] = "dispatch"
    /\ EvaluateReturn(t, op[t].src, op[t].excNull,
                      Deliver(CallbackExit(handles[Iso(t)], calls[t][1].values),
                              sink[t], Empty, op[t].excNull),
                      calls[t], want[t], guard[t])
    /\ calls' = [calls EXCEPT ![t] = <<>>]
    /\ sink' = [sink EXCEPT ![t] = Undefined]
    /\ want' = [want EXCEPT ![t] = NoWant]
    /\ nested' = [nested EXCEPT ![t] = 0]
    /\ touched' = {} /\ ranEmpty' = FALSE
    /\ UNCHANGED << isoState, buffer >>
    /\ UNCHANGED << tmplState, slots, ctxState, ctxFuncs, ctxGlobal >>

\* ---------------------------------------------------------- createFunction
CreateFunctionCall(t) ==
    /\ pc[t] = "idle"
    /\ tmplState[Iso(t)] = "live" /\ ctxState[Iso(t)] = "live"
    /\ Call(t, "createFunction")

\* globalTemplate->Set(name, FunctionTemplate::New(isolate, callback, data))
TemplateSet(sl, fn, id) == [sl EXCEPT ![fn] = id]

CreateFunction(t) ==
    /\ Inside(t) = "createFunction"
    /\ \E fn \in Names, id \in Ids :
          LET sl  == TemplateSet(slots[Iso(t)], fn, id)
              new == ContextNew(sl, ctxGlobal[Iso(t)])
          IN  /\ slots' = [slots EXCEPT ![Iso(t)] = sl]
              \* globalContext->Reset(isolate, newContext)
              /\ ctxFuncs' = [ctxFuncs EXCEPT ![Iso(t)] = new.funcs]
              /\ ctxGlobal' = [ctxGlobal EXCEPT ![Iso(t)] = new.x]
    /\ touched' = Touch(t, "createFunction", Scoped(guard[t]))
    /\ Return(t, Plain(t, "createFunction", 0, 0), Unwound(t, Scoped(guard[t])))
    /\ ranEmpty' = FALSE
    /\ UNCHANGED << isoState, buffer >>
    /\ UNCHANGED << nested, tmplState, ctxState, handles, sink, calls, want >>

\* ------------------------------------------------------------- getProperty
\* value->ToObject(): null and undefined have no object: an empty handle and
\* a TypeError pending.  A primitive gets its wrapper.  An empty Local has
\* nothing to convert.
ToObject(v) ==
    CASE v.k \in {"null", "undefined"} -> [obj |-> Empty, exc |-> Object("TypeError")]
      [] v.k = "empty"                 -> [obj |-> Empty, exc |-> Empty]
      [] v.k = "object"                -> [obj |-> v, exc |-> Empty]
      [] OTHER                         -> [obj |-> Object("wrapper"), exc |-> Empty]

\* object->GetRealNamedProperty(key): the value; an empty handle when no real
\* property is found on the prototype chain; an empty handle and the
\* exception when the lookup throws.
GetRealNamedProperty(obj, key) ==
    CASE obj.o = "literal" /\ key = "a" -> [result |-> Number(1), exc |-> Empty]
      [] obj.o = "literal" /\ key = "b" -> [result |-> Empty, exc |-> Object("Error")]
      [] OTHER                          -> [result |-> Empty, exc |-> Empty]

GetPropertyCall(t) ==
    /\ pc[t] = "idle"
    /\ Live(handles[Iso(t)]) # {} /\ Free(handles[Iso(t)]) # {}
    /\ Call(t, "getProperty")

GetPropertyReturn(t, h, key, excNull, d, stk) ==
    /\ handles' = [handles EXCEPT ![Iso(t)] = d.hs]
    /\ Return(t, Res(t, "getProperty", NoSrc, h, key, excNull, d.ret, d.wrote,
                     d.exc, <<>>, NoWant), Unwound(t, stk))

GetProperty(t) ==
    /\ Inside(t) = "getProperty"
    /\ \E h \in Live(handles[Iso(t)]), key \in Keys, excNull \in BOOLEAN :
          LET stk0 == TryCatchOn(guard[t])
              stk  == Scoped(stk0)
              o    == ToObject(handles[Iso(t)][h])
              r    == GetRealNamedProperty(o.obj, key)
          IN  /\ touched' = Touch(t, "getProperty", stk0)
                              \cup Touch(t, "getProperty", stk)
              /\ IF IsEmpty(o.obj)
                 THEN \* object->GetRealNamedProperty on an empty Local<Object>
                      \/ Crash /\ UNCHANGED handles
                      \/ /\ GetPropertyReturn(t, h, key, excNull,
                               Deliver(handles[Iso(t)], Empty, o.exc, excNull),
                               stk)
                 ELSE /\ GetPropertyReturn(t, h, key, excNull,
                            Deliver(handles[Iso(t)], r.result, r.exc, excNull),
                            stk)
    /\ ranEmpty' = FALSE
    /\ UNCHANGED << isoState, buffer >>
    /\ UNCHANGED << nested, tmplState, slots, ctxState, ctxFuncs, ctxGlobal,
                    sink, calls, want >>

\* ------------------------------------------------- the engine's conversions
\* The decimal digits of a natural number.
RECURSIVE Decimal(_)
Decimal(n) ==
    IF n < 10 THEN <<48 + n>> ELSE Decimal(n \div 10) \o <<48 + (n % 10)>>

\* What Object.prototype.toString and Error.prototype.toString give for an
\* object that does not define its own: "[object Object]", or the name of the
\* error (an engine error's message follows the name and is not modelled).
ObjectText(o) ==
    CASE o = "Error"          -> <<69, 114, 114, 111, 114>>
      [] o = "SyntaxError"    -> <<83, 121, 110, 116, 97, 120, 69, 114, 114, 111, 114>>
      [] o = "ReferenceError" -> <<82, 101, 102, 101, 114, 101, 110, 99, 101, 69, 114, 114, 111, 114>>
      [] o = "TypeError"      -> <<84, 121, 112, 101, 69, 114, 114, 111, 114>>
      [] OTHER                -> <<91, 111, 98, 106, 101, 99, 116, 32, 79, 98, 106, 101, 99, 116, 93>>

\* ToPrimitive with a hint, in a context whose global variable x is given:
\* the primitive, x afterwards, and whether a function of the script ran.
\* A primitive is its own; an object is asked valueOf or toString, the
\* script's if it defines them.
ToPrimitive(v, hint, x) ==
    IF v.k # "object" THEN [v |-> v, x |-> x, ran |-> FALSE]
    ELSE IF v.o = "converter"
         THEN IF hint = "number"
              THEN [v |-> Number(2), x |-> 7, ran |-> TRUE]
              ELSE [v |-> String(<<115>>), x |-> 8, ran |-> TRUE]
    ELSE [v |-> String(ObjectText(v.o)), x |-> x, ran |-> FALSE]

\* Value::ToString of a primitive.
ValueToString(v) ==
    CASE v.k = "string"    -> v.s
      [] v.k = "number"    -> Decimal(v.n)
      [] v.k = "boolean"   -> IF v.n = 1 THEN <<116, 114, 117, 101>> ELSE <<102, 97, 108, 115, 101>>
      [] v.k = "null"      -> <<110, 117, 108, 108>>
      [] v.k = "undefined" -> <<117, 110, 100, 101, 102, 105, 110, 101, 100>>

\* String::Utf8Value utf8(value): the bytes *utf8 points at and length()
\* counts, without the terminating NUL.  An empty Local gives no bytes.
Utf8Value(v, x) ==
    IF IsEmpty(v) THEN [bytes |-> <<>>, x |-> x, ran |-> FALSE]
    ELSE LET p == ToPrimitive(v, "string", x)
         IN  [bytes |-> Utf8Encode(ValueToString(p.v)), x |-> p.x, ran |-> p.ran]

\* ------------------------------------------------------------ introspection
\* The handles a thread passes: from the host any live one, from a dispatch
\* function the arguments of its invocation.
ArgHandles(t) == IF calls[t] = <<>> THEN {} ELSE Range(calls[t][1].values)
Usable(t) ==
    IF pc[t] \in {"dispatch", "ncalling", "nlocked"}
    THEN ArgHandles(t) \cap Live(handles[Iso(t)])
    ELSE Live(handles[Iso(t)])

\* The decimal number a string of digits spells, 0 (from NaN) for any other.
RECURSIVE Digits(_, _)
Digits(s, acc) ==
    IF s = <<>> THEN acc
    ELSE IF Head(s) \in 48..57 THEN Digits(Tail(s), acc * 10 + (Head(s) - 48))
    ELSE 0

\* value->ToInteger()->IntegerValue()
ToInteger(v) ==
    CASE v.k \in {"number", "boolean"} -> v.n
      [] v.k = "string"                -> Digits(v.s, 0)
      [] OTHER                         -> 0

ValueToIntCall(t) ==
    /\ Usable(t) # {}
    /\ Call(t, "valueToInt")

\* The GlobalValue of an introspection call, then the use of the Local it
\* gives.  A Global that designates nothing gives an empty Local, and the
\* member call through it is a null dereference.
ValueToInt(t) ==
    /\ Inside(t) = "valueToInt"
    /\ \E h \in Usable(t) :
          LET g == GlobalGet(handles[Iso(t)], h)
              p == ToPrimitive(g.v, "number", ctxGlobal[Iso(t)])
              e == Unwound(t, Scoped(guard[t]))
          IN  /\ IF IsEmpty(g.v)
                 THEN /\ \/ Crash
                         \/ \E n \in {0, 1} :
                               Return(t, Plain(t, "valueToInt", h, n), e)
                      /\ UNCHANGED ctxGlobal
                 ELSE /\ Return(t, Plain(t, "valueToInt", h, ToInteger(p.v)),
                                [e EXCEPT !.ran = p.ran])
                      /\ ctxGlobal' = [ctxGlobal EXCEPT ![Iso(t)] = p.x]
              /\ handles' = [handles EXCEPT ![Iso(t)] = g.hs]
    /\ touched' = Touch(t, "valueToInt", Scoped(guard[t]))
    /\ ranEmpty' = FALSE
    /\ UNCHANGED << isoState, buffer >>
    /\ UNCHANGED << nested, tmplState, slots, ctxState, ctxFuncs, sink, calls,
                    want >>

TypeChecks == {"isNull", "isUndefined", "isBoolean", "isNumber", "isString",
               "isObject"}

\* scoped->IsNull() .. scoped->IsObject()
TypeCheck(name, v) ==
    CASE name = "isNull"      -> v.k = "null"
      [] name = "isUndefined" -> v.k = "undefined"
      [] name = "isBoolean"   -> v.k = "boolean"
      [] name = "isNumber"    -> v.k = "number"
      [] name = "isString"    -> v.k = "string"
      [] name = "isObject"    -> v.k = "object"

TypeCheckCall(t) ==
    /\ Usable(t) # {}
    /\ Call(t, "is")

\* One of isNull .. isObject.
TypeCheckBody(t) ==
    /\ Inside(t) = "is"
    /\ \E h \in Usable(t), name \in TypeChecks :
          LET g == GlobalGet(handles[Iso(t)], h)
          IN  /\ IF IsEmpty(g.v)
                 THEN \/ Crash
                      \/ /\ \E b \in {0, 1} :
                              Return(t, Plain(t, name, h, b),
                                     Unwound(t, Scoped(guard[t])))
                 ELSE /\ Return(t, Plain(t, name, h,
                                         IF TypeCheck(name, g.v) THEN 1 ELSE 0),
                                Unwound(t, Scoped(guard[t])))
              /\ handles' = [handles EXCEPT ![Iso(t)] = g.hs]
              /\ touched' = Touch(t, name, Scoped(guard[t]))
    /\ ranEmpty' = FALSE
    /\ UNCHANGED << isoState, buffer >>
    /\ UNCHANGED << nested, tmplState, slots, ctxState, ctxFuncs, ctxGlobal,
                    sink, calls, want >>

\* ----------------------------------------- getUtf8StringLength, copyUtf8String
\* An allocation of n bytes, each of a value no UTF-8 text holds.
Fresh(n) == [i \in 1..n |-> 255]

\* A copy that stops one byte early.
MemcpyShort(dst, src, n) ==
    [i \in 1..Len(dst) |-> IF i < n THEN src[i] ELSE dst[i]]
\* A copy that ends the bytes with a NUL, as strncpy would a shorter text.
MemcpyTerminated(dst, src, n) ==
    [i \in 1..Len(dst) |-> IF i <= n THEN src[i]
                           ELSE IF i = n + 1 THEN 0 ELSE dst[i]]

\* memcpy(dst, src, n): the destination afterwards.
Memcpy(dst, src, n) ==
    [i \in 1..Len(dst) |-> IF i <= n THEN src[i] ELSE dst[i]]

\* The handles whose text the host reads: all but those of engine errors.
Legible(t) ==
    { h \in Usable(t) :
        handles[Iso(t)][h].o \notin {"SyntaxError", "ReferenceError", "TypeError"} }

GetUtf8StringLengthCall(t) ==
    /\ Legible(t) # {}
    /\ Call(t, "getUtf8StringLength")

\* getUtf8StringLength, and the host that allocates its destination from the
\* length returned, exactly or with room to spare.
GetUtf8StringLength(t) ==
    /\ Inside(t) = "getUtf8StringLength"
    /\ \E h \in Legible(t), spare \in {0, 1} :
          LET g    == GlobalGet(handles[Iso(t)], h)
              utf8 == Utf8Value(g.v, ctxGlobal[Iso(t)])
              n    == Len(utf8.bytes)
          IN  /\ handles' = [handles EXCEPT ![Iso(t)] = g.hs]
              /\ Return(t, Plain(t, "getUtf8StringLength", h, n),
                        [Unwound(t, Scoped(guard[t])) EXCEPT !.ran = utf8.ran])
              /\ ctxGlobal' = [ctxGlobal EXCEPT ![Iso(t)] = utf8.x]
              /\ buffer' = Buffer(h, n, Fresh(n + spare))
    /\ touched' = Touch(t, "getUtf8StringLength", Scoped(guard[t]))
    /\ ranEmpty' = FALSE
    /\ UNCHANGED << nested, tmplState, slots, ctxState, ctxFuncs, sink, calls,
                    want, isoState >>

CopyUtf8StringCall(t) ==
    /\ Legible(t) # {}
    /\ buffer # NoBuffer
    /\ Call(t, "copyUtf8String")

\* copyUtf8String into the host's buffer, with a count within the buffer and
\* within the bytes of the text.
CopyUtf8String(t) ==
    /\ Inside(t) = "copyUtf8String"
    /\ \E h \in Legible(t), count \in 0..Len(buffer.bytes) :
          LET g    == GlobalGet(handles[Iso(t)], h)
              utf8 == Utf8Value(g.v, ctxGlobal[Iso(t)])
          IN  /\ handles' = [handles EXCEPT ![Iso(t)] = g.hs]
              /\ count <= Len(utf8.bytes)
              /\ buffer' = [buffer EXCEPT
                               !.bytes = Memcpy(@, utf8.bytes, count)]
              /\ Return(t, Plain(t, "copyUtf8String", h, 0),
                        [Unwound(t, Scoped(guard[t])) EXCEPT
                            !.ran = utf8.ran, !.count = count])
              /\ ctxGlobal' = [ctxGlobal EXCEPT ![Iso(t)] = utf8.x]
    /\ touched' = Touch(t, "copyUtf8String", Scoped(guard[t]))
    /\ ranEmpty' = FALSE
    /\ UNCHANGED << nested, tmplState, slots, ctxState, ctxFuncs, sink, calls,
                    want, isoState >>

\* ------------------------------------------------------------------ dispose
\* ~Global: Reset gives the slot back to the global handles of the isolate,
\* storage that Isolate::Dispose has released if the isolate is disposed.  A
\* Global that designates nothing has no slot.
GlobalDelete(iso, empty) ==
    IF ~empty /\ iso = "disposed" THEN {"released isolate"} ELSE {}

\* The outcomes of a step that misused something: the process runs on, or dies.
AfterMisuse(misused) ==
    IF misused = {} THEN {pc} ELSE {pc, [u \in AllThreads |-> "dead"]}

\* delete of a Global.  No guard is constructed: the thread has what its
\* callers have.  The host disposes a handle once, and not one that another
\* thread's dispatch function holds.
DisposeValue(t) ==
    /\ pc[t] \in {"idle", "dispatch"}
    /\ \E h \in Live(handles[Iso(t)]) :
        LET del == GlobalDelete(isoState[Iso(t)], IsEmpty(handles[Iso(t)][h]))
        IN  /\ \A u \in ThreadsOn(Iso(t)) \ {t} : h \notin ArgHandles(u)
            /\ handles' = [handles EXCEPT ![Iso(t)][h] = Disposed]
            /\ touched' = IF IsEmpty(handles[Iso(t)][h]) THEN {}
                          ELSE Touch(t, "disposeValue", guard[t])
            /\ res' = Plain(t, "disposeValue", h, 0)
            /\ eff' = [NoEff EXCEPT !.misused = del]
            /\ pc' \in AfterMisuse(del)
    /\ ranEmpty' = FALSE
    /\ UNCHANGED << isoState, buffer >>
    /\ UNCHANGED << lockOwner, guard, op, nop, nested, tmplState, slots,
                    ctxState, ctxFuncs, ctxGlobal, sink, calls, want >>

DisposeContext(t) ==
    /\ ctxState[Iso(t)] = "live"
    /\ \A u \in ThreadsOn(Iso(t)) : pc[u] = "idle"
    /\ ctxState' = [ctxState EXCEPT ![Iso(t)] = "disposed"]
    /\ touched' = Touch(t, "disposeContext", guard[t])
    /\ res' = Plain(t, "disposeContext", 0, 0)
    /\ ranEmpty' = FALSE
    /\ eff' = [NoEff EXCEPT !.misused = GlobalDelete(isoState[Iso(t)], FALSE)]
    /\ pc' \in AfterMisuse(GlobalDelete(isoState[Iso(t)], FALSE))
    /\ UNCHANGED << isoState, buffer >>
    /\ UNCHANGED << lockOwner, guard, op, nop, nested, tmplState, slots,
                    ctxFuncs, ctxGlobal, handles, sink, calls, want >>

DisposeTemplate(t) ==
    /\ tmplState[Iso(t)] = "live"
    /\ \A u \in ThreadsOn(Iso(t)) : pc[u] = "idle"
    /\ tmplState' = [tmplState EXCEPT ![Iso(t)] = "disposed"]
    /\ touched' = Touch(t, "disposeTemplate", guard[t])
    /\ res' = Plain(t, "disposeTemplate", 0, 0)
    /\ ranEmpty' = FALSE
    /\ eff' = [NoEff EXCEPT !.misused = GlobalDelete(isoState[Iso(t)], FALSE)]
    /\ pc' \in AfterMisuse(GlobalDelete(isoState[Iso(t)], FALSE))
    /\ UNCHANGED << isoState, buffer >>
    /\ UNCHANGED << lockOwner, guard, op, nop, nested, slots, ctxState,
                    ctxFuncs, ctxGlobal, handles, sink, calls, want >>

\* Whether the isolate is locked or entered by a thread.
InUse(i) == lockOwner[i] # 0 \/ \E u \in ThreadsOn(i) : guard[u] # <<>>

\* isolate->Dispose(): the isolate and all its storage are released.  It
\* must not be locked or entered.
IsolateDispose(i) == IF InUse(i) THEN {"isolate in use"} ELSE {}

DisposeIsolate(t) ==
    /\ isoState[Iso(t)] = "live"
    /\ \A u \in ThreadsOn(Iso(t)) : pc[u] = "idle"
    /\ isoState' = [isoState EXCEPT ![Iso(t)] = "disposed"]
    /\ res' = Plain(t, "disposeIsolate", 0, 0)
    /\ eff' = [NoEff EXCEPT !.misused = IsolateDispose(Iso(t))]
    /\ pc' \in AfterMisuse(IsolateDispose(Iso(t)))
    /\ touched' = {} /\ ranEmpty' = FALSE
    /\ UNCHANGED << lockOwner, guard, op, nop, nested, tmplState, slots,
                    ctxState, ctxFuncs, ctxGlobal, handles, sink, calls, want,
                    buffer >>

\* ----------------------------------------------------------- setReturnValue*
\* What the ReturnValue holds after each operation on it.
SetUndefined(rv)   == Undefined
SetNullAsUndefined(rv) == Undefined
SetNull(rv)        == Null
SetBool(rv, b)     == Boolean(b)
SetDouble(rv, d)   == Number(d)
SetLocal(rv, v)    == IF IsEmpty(v) THEN Undefined ELSE v
SetEmptyString(rv) == String(<<>>)

\* The texts a dispatch function returns, with the UTF-8 bytes it passes:
\* "ok" and U+00E9.
Texts == { [text |-> <<111, 107>>, utf8 |-> <<111, 107>>],
           [text |-> <<233>>, utf8 |-> <<195, 169>>] }

\* A setReturnValue* operation, called by the dispatch function of thread t.
SetReturn(t, v, w, tch) ==
    /\ sink' = [sink EXCEPT ![t] = v]
    /\ want' = [want EXCEPT ![t] = w]
    /\ touched' = tch
    /\ res' = NoRes /\ ranEmpty' = FALSE
    /\ eff' = NoEff
    /\ UNCHANGED << isoState, buffer >>
    /\ UNCHANGED << lockOwner, guard, pc, op, nop, nested, tmplState, slots,
                    ctxState, ctxFuncs, ctxGlobal, handles, calls >>

SetReturnValueUndefined(t) ==
    /\ pc[t] = "dispatch"
    /\ SetReturn(t, SetUndefined(sink[t]), Want("undefined", 0, <<>>), {})

SetReturnValueNull(t) ==
    /\ pc[t] = "dispatch"
    /\ SetReturn(t, SetNull(sink[t]), Want("null", 0, <<>>), {})

SetReturnValueBoolean(t) ==
    /\ pc[t] = "dispatch"
    /\ \E b \in BOOLEAN :
        SetReturn(t, SetBool(sink[t], b), Want("boolean", IF b THEN 1 ELSE 0, <<>>), {})

SetReturnValueNumber(t) ==
    /\ pc[t] = "dispatch"
    /\ \E d \in {3} :
        SetReturn(t, SetDouble(sink[t], d), Want("number", d, <<>>), {})

SetReturnValueString(t) ==
    /\ pc[t] = "dispatch"
    /\ \E x \in Texts :
        SetReturn(t, SetLocal(sink[t], NewFromUtf8(x.utf8)),
                  Want("string", 0, x.text),
                  Touch(t, "setReturnValueString", guard[t]))

SetReturnValueEmptyString(t) ==
    /\ pc[t] = "dispatch"
    /\ SetReturn(t, SetEmptyString(sink[t]), Want("string", 0, <<>>), {})

\* ----------------------------------------------------------- specifications
\* A host that drives the isolate from one thread and reads values and
\* properties: no host function is registered.
ValueScripts == {SrcObject, SrcBad, SrcSet, SrcGet, SrcCallG}

ValueStep(t) ==
    \/ CreateTemplateCall(t)
    \/ CreateTemplate(t)
    \/ CreateContextCall(t)
    \/ CreateContext(t)
    \/ Lock(t)
    \/ EvaluateCall(t)
    \/ Evaluate(t, ValueScripts)
    \/ GetPropertyCall(t)
    \/ GetProperty(t)
    \/ ValueToIntCall(t)
    \/ ValueToInt(t)
    \/ TypeCheckCall(t)
    \/ TypeCheckBody(t)
    \/ DisposeValue(t)
    \/ DisposeContext(t)
    \/ DisposeTemplate(t)

Next == ValueStep(1)

Spec == Init /\ [][Next]_vars

\* A host that registers functions and evaluates scripts that call them, from
\* one thread; its dispatch function inspects its arguments and sets the
\* return value.
BridgeScripts == {SrcSet, SrcGet, SrcCallF, SrcCallG}

BridgeStep(t) ==
    \/ CreateTemplateCall(t)
    \/ CreateTemplate(t)
    \/ CreateContextCall(t)
    \/ CreateContext(t)
    \/ Lock(t)
    \/ CreateFunctionCall(t)
    \/ CreateFunction(t)
    \/ EvaluateCall(t)
    \/ Evaluate(t, BridgeScripts)
    \/ CallbackReturn(t)
    \/ ValueToIntCall(t)
    \/ ValueToInt(t)
    \/ DisposeValue(t)
    \/ SetReturnValueUndefined(t)
    \/ SetReturnValueNull(t)
    \/ SetReturnValueBoolean(t)
    \/ SetReturnValueNumber(t)
    \/ SetReturnValueString(t)
    \/ SetReturnValueEmptyString(t)

BridgeNext == BridgeStep(1)

BridgeSpec == Init /\ [][BridgeNext]_vars

\* Two host threads on the one isolate.  Each thread that is in a call runs
\* on, and a dispatch function returns.
ThreadScripts == {SrcSet, SrcCallF}

ThreadStep(t) ==
    \/ CreateTemplateCall(t)
    \/ CreateTemplate(t)
    \/ CreateContextCall(t)
    \/ CreateContext(t)
    \/ Lock(t)
    \/ CreateFunctionCall(t)
    \/ CreateFunction(t)
    \/ EvaluateCall(t)
    \/ Evaluate(t, ThreadScripts)
    \/ CallbackReturn(t)
    \/ ValueToIntCall(t)
    \/ ValueToInt(t)
    \/ SetReturnValueNumber(t)

ThreadNext == \E t \in Threads : ThreadStep(t)

Running(t) ==
    \/ Lock(t)
    \/ CreateTemplate(t)
    \/ CreateContext(t)
    \/ CreateFunction(t)
    \/ Evaluate(t, ThreadScripts)
    \/ ValueToInt(t)

ThreadSpec ==
    /\ Init /\ [][ThreadNext]_vars
    /\ \A t \in Threads : WF_vars(Running(t)) /\ WF_vars(CallbackReturn(t))

\* A host that makes values from one thread and then disposes what it made,
\* in any order.
LifeScripts == {SrcObject, SrcGet}

LifeStep(t) ==
    \/ CreateTemplateCall(t)
    \/ CreateTemplate(t)
    \/ CreateContextCall(t)
    \/ CreateContext(t)
    \/ Lock(t)
    \/ CreateFunctionCall(t)
    \/ CreateFunction(t)
    \/ EvaluateCall(t)
    \/ Evaluate(t, LifeScripts)
    \/ GetPropertyCall(t)
    \/ GetProperty(t)
    \/ DisposeValue(t)
    \/ DisposeContext(t)
    \/ DisposeTemplate(t)
    \/ DisposeIsolate(t)

LifeNext == LifeStep(1)

LifeSpec == Init /\ [][LifeNext]_vars

\* A host that registers functions, evaluates scripts that fail, succeed and
\* call back, and reads values and properties, from one thread and from its
\* dispatch function.
GuardScripts == {SrcObject, SrcBad, SrcCallF}

GuardStep(t) ==
    \/ CreateTemplateCall(t)
    \/ CreateTemplate(t)
    \/ CreateContextCall(t)
    \/ CreateContext(t)
    \/ Lock(t)
    \/ CreateFunctionCall(t)
    \/ CreateFunction(t)
    \/ EvaluateCall(t)
    \/ Evaluate(t, GuardScripts)
    \/ CallbackReturn(t)
    \/ GetPropertyCall(t)
    \/ GetProperty(t)
    \/ ValueToIntCall(t)
    \/ ValueToInt(t)

GuardNext == GuardStep(1)

GuardSpec == Init /\ [][GuardNext]_vars

\* A host that evaluates string literals from one thread and copies their
\* UTF-8 bytes out.
TextScripts == { SrcText(b) : b \in Literals }

TextStep(t) ==
    \/ CreateTemplateCall(t)
    \/ CreateTemplate(t)
    \/ CreateContextCall(t)
    \/ CreateContext(t)
    \/ Lock(t)
    \/ EvaluateCall(t)
    \/ Evaluate(t, TextScripts)
    \/ GetUtf8StringLengthCall(t)
    \/ GetUtf8StringLength(t)
    \/ CopyUtf8StringCall(t)
    \/ CopyUtf8String(t)

TextNext == TextStep(1)

TextSpec == Init /\ [][TextNext]_vars

\* A host that evaluates a string, an object literal and an object that
\* converts itself, from one thread, and inspects them.
ReadScripts == {SrcText(<<111, 107>>), SrcConverter, SrcObject}

ReadStep(t) ==
    \/ CreateTemplateCall(t)
    \/ CreateTemplate(t)
    \/ CreateContextCall(t)
    \/ CreateContext(t)
    \/ Lock(t)
    \/ EvaluateCall(t)
    \/ Evaluate(t, ReadScripts)
    \/ ValueToIntCall(t)
    \/ ValueToInt(t)
    \/ TypeCheckCall(t)
    \/ TypeCheckBody(t)
    \/ GetUtf8StringLengthCall(t)
    \/ GetUtf8StringLength(t)
    \/ CopyUtf8StringCall(t)
    \/ CopyUtf8String(t)

ReadNext == ReadStep(1)

ReadSpec == Init /\ [][ReadNext]_vars

\* Two isolates: two host threads set x on the first, a third evaluates an
\* object that converts itself on the second, and each reads what it made
\* as an integer.
IsoThreads == {1, 2, Other}
IsoScripts(t) == IF Iso(t) = 1 THEN {SrcSet} ELSE {SrcConverter}

IsoStep(t) ==
    \/ CreateTemplateCall(t)
    \/ CreateTemplate(t)
    \/ CreateContextCall(t)
    \/ CreateContext(t)
    \/ Lock(t)
    \/ EvaluateCall(t)
    \/ Evaluate(t, IsoScripts(t))
    \/ ValueToIntCall(t)
    \/ ValueToInt(t)
    \/ DisposeValue(t)

IsoNext == \E t \in IsoThreads : IsoStep(t)

IsoSpec == Init /\ [][IsoNext]_vars

\* ------------------------------------------------------------------ claims
Outputs == {"evaluate", "getProperty"}

\* C1 as stated: every call of evaluate and of getProperty that returns,
\* whatever its exception out-parameter, gives exactly one of a non-null
\* value with no exception handle, or a null value with a non-null exception
\* handle.
C1_ExactlyOneOutput ==
    res.name \in Outputs =>
        \/ res.ret # 0 /\ ~res.wrote
        \/ res.ret = 0 /\ res.wrote /\ res.exc # 0

\* C1 amended: a call given a place for the exception gives exactly one of the
\* two outputs, each a live allocation; a call given nullptr for it writes no
\* exception handle, and on failure returns nullptr alone.
C1_ExactlyOneOutputIfAsked ==
    res.name \in Outputs =>
        /\ ~res.excNull =>
              \/ res.ret \in Live(handles[Iso(res.t)]) /\ ~res.wrote
              \/ res.ret = 0 /\ res.wrote /\ res.exc \in Live(handles[Iso(res.t)])
        /\ res.excNull => ~res.wrote /\ res.ret \in Live(handles[Iso(res.t)]) \cup {0}

C1_FailureDelivered ==
    /\ res.name = "getProperty" /\ ~res.excNull
    /\ res.ret = 0 /\ res.wrote /\ handles[Iso(res.t)][res.exc] = Object("Error")

\* C2: evaluate of a text that does not compile returns nullptr and the
\* captured exception, and Run is never applied to a script that did not
\* compile.
C2_RunOnlyCompiled ==
    /\ ~ranEmpty
    /\ (res.name = "evaluate" /\ res.src.kind = "bad") =>
          /\ res.ret = 0
          /\ ~res.excNull => res.wrote /\ handles[Iso(res.t)][res.exc] = Object("SyntaxError")

\* C3: every exception handle evaluate or getProperty hands out designates a
\* captured exception value, never nothing.
C3_ExceptionHandleValid ==
    (res.name \in Outputs /\ res.wrote) => ~IsEmpty(handles[Iso(res.t)][res.exc])

\* The keys the script that made an object set on it.
WasSet(v, key) == v.o = "literal" /\ key \in {"a", "b"}

\* C4: getProperty of an object handle with a key never set on the object
\* writes no exception handle and returns a handle to undefined.
C4_MissingKeyIsUndefined ==
    (/\ res.name = "getProperty"
     /\ handles[Iso(res.t)][res.h].k = "object"
     /\ ~WasSet(handles[Iso(res.t)][res.h], res.key)) =>
        /\ ~res.wrote
        /\ res.ret # 0
        /\ handles[Iso(res.t)][res.ret].k = "undefined"

\* One invocation inv of the dispatch function is the one the call in src
\* asks for: the id the name is registered under, the number of arguments,
\* and a distinct handle for each argument, in order.
InvocationOf(i, inv, src) ==
    /\ inv.callId = slots[i][src.n]
    /\ inv.argc = Len(src.args)
    /\ Len(inv.values) = Len(src.args)
    /\ Cardinality(Range(inv.values)) = Len(src.args)
    /\ inv.seen = src.args

InDispatch(t) == pc[t] \in {"dispatch", "ncalling", "nlocked"}

\* C5: a script call of a registered name invokes the dispatch function once,
\* before evaluate returns, with the registered call id and one handle per
\* argument in order; a call of a name that is not registered invokes nothing.
C5_DispatchedOncePerCall ==
    /\ \A t \in Threads :
          InDispatch(t) =>
              /\ Len(calls[t]) = 1
              /\ InvocationOf(Iso(t), calls[t][1], op[t].src)
    /\ res.name = "evaluate" =>
          IF res.src.kind = "call" /\ slots[Iso(res.t)][res.src.n] # 0
          THEN Len(res.calls) = 1 /\ InvocationOf(Iso(res.t), res.calls[1], res.src)
          ELSE res.calls = <<>>

C5_TwoArgumentsDispatched ==
    /\ res.name = "evaluate" /\ res.src = SrcCallF
    /\ Len(res.calls) = 1
    /\ res.calls[1].callId = 8
    /\ res.calls[1].seen = <<Number(1), String(<<120>>)>>

\* The value a request of the dispatch function asks the call to have.
Requested(w) ==
    CASE w.set = "null"    -> Null
      [] w.set = "boolean" -> Val("boolean", w.n, <<>>, "")
      [] w.set = "number"  -> Val("number", w.n, <<>>, "")
      [] w.set = "string"  -> Val("string", 0, w.s, "")
      [] OTHER             -> Undefined

\* C6: the value of a call of a host function is the value the dispatch
\* function last asked for, and undefined if it asked for none.
C6_CallResultIsSinkValue ==
    (res.name = "evaluate" /\ res.src.kind = "call" /\ slots[Iso(res.t)][res.src.n] # 0) =>
        /\ ~res.wrote
        /\ res.ret \in Live(handles[Iso(res.t)])
        /\ handles[Iso(res.t)][res.ret] = Requested(res.want)

C6_StringReturned ==
    /\ res.name = "evaluate" /\ res.src.kind = "call"
    /\ res.want = Want("string", 0, <<233>>)
    /\ res.ret \in Live(handles[Iso(res.t)])

\* C7: a createFunction leaves every function registered before callable in
\* the context handle and the global variable with the value it had.
C7_RegistrationKeepsGlobals ==
    [][\A t \in Threads :
          (Inside(t) = "createFunction" /\ pc'[t] = "idle") =>
              /\ \A n \in Names : ctxFuncs[Iso(t)][n] # 0 => ctxFuncs'[Iso(t)][n] # 0
              /\ ctxGlobal'[Iso(t)] = ctxGlobal[Iso(t)]]_vars

\* C8: no operation touches the isolate outside the lock, an isolate scope
\* and a handle scope.
C8_TouchesGuarded == touched = {}

InCall(t) == pc[t] \in {"locked", "dispatch", "ncalling", "nlocked"}

\* C9: at most one thread owns the isolate's lock, and the bodies of guarded
\* operations of two threads never overlap.
C9_MutualExclusion ==
    /\ Cardinality({t \in Threads : "Locker+" \in Range(guard[t])}) <= 1
    /\ \A t \in Threads : InCall(t) =>
          /\ lockOwner[Iso(t)] = t
          /\ "Locker+" \in Range(guard[t])
          /\ \A u \in Threads \ {t} : ~InCall(u)

C9_Contended == pc[1] = "dispatch" /\ pc[2] = "calling" /\ lockOwner[1] = 1

\* C10: a dispatch function never waits for the lock its evaluate holds: its
\* thread owns the lock throughout, each guarded call it makes returns to it,
\* and evaluate returns.
C10_DispatchNeverDeadlocks ==
    /\ [](\A t \in Threads : InDispatch(t) => lockOwner[Iso(t)] = t)
    /\ \A t \in Threads : (pc[t] = "ncalling") ~> (pc[t] = "dispatch")
    /\ \A t \in Threads : (pc[t] = "dispatch") ~> (pc[t] = "idle")

C10_NestedCallReturned ==
    /\ pc[1] = "dispatch" /\ lockOwner[1] = 1
    /\ res.t = 1 /\ res.name = "valueToInt" /\ res.ret = 1
    /\ pc[2] = "calling"

\* The UTF-8 bytes of the literal that spells the string s.
EncodingOf(s) == CHOOSE b \in Literals : Utf8Decode(b) = s

\* C11: when the host has measured a string handle with getUtf8StringLength,
\* allocated exactly that many bytes, and copyUtf8String of the same handle
\* returns with count equal to that length, the buffer holds the UTF-8
\* encoding of the string, byte for byte.
C11_LengthThenCopyReproduces ==
    (/\ res.name = "copyUtf8String"
     /\ res.h = buffer.h
     /\ eff.count = buffer.n
     /\ Len(buffer.bytes) = buffer.n
     /\ handles[Iso(res.t)][res.h].k = "string") =>
        buffer.bytes = EncodingOf(handles[Iso(res.t)][res.h].s)

C11_FourByteTextCopied ==
    /\ res.name = "copyUtf8String" /\ res.h = buffer.h
    /\ eff.count = 4 /\ buffer.n = 4
    /\ buffer.bytes = <<240, 159, 152, 128>>

\* C12: copyUtf8String with count n, n at most the length of the encoding,
\* leaves the destination with the first n bytes of the encoding in its
\* first n positions and every later position as it was: nothing is written
\* at or beyond position n, and no NUL follows a truncated copy.
C12_CopyWritesOnlyCount ==
    [][res'.name = "copyUtf8String" =>
          LET n   == eff'.count
              enc == EncodingOf(handles[Iso(res'.t)][res'.h].s)
          IN  /\ n <= Len(enc)
              /\ Len(buffer'.bytes) = Len(buffer.bytes)
              /\ \A i \in 1..Len(buffer.bytes) :
                    buffer'.bytes[i] = IF i <= n THEN enc[i]
                                       ELSE buffer.bytes[i]]_vars

C12_TruncatedCopy ==
    /\ res.name = "copyUtf8String"
    /\ eff.count = 2
    /\ handles[Iso(res.t)][res.h] = NewFromUtf8(<<226, 130, 172>>)
    /\ buffer.bytes = <<226, 130, 255, 255>>

\* C13: a value handle stops being live only in a step of disposeValue on
\* that handle; in particular the return of a callback invocation and of its
\* evaluate leaves every argument handle that was live still live, with the
\* argument it was made for.
C13_OnlyDisposeValueReleases ==
    [][/\ \A i \in Isolates :
             \A h \in Live(handles[i]) \ Live(handles'[i]) :
                 /\ res'.name = "disposeValue"
                 /\ res'.h = h /\ Iso(res'.t) = i
       /\ \A t \in Threads :
             (pc[t] = "dispatch" /\ pc'[t] = "idle") =>
                 \A k \in 1..Len(calls[t][1].values) :
                     LET h == calls[t][1].values[k]
                     IN  h \in Live(handles[Iso(t)]) =>
                            /\ h \in Live(handles'[Iso(t)])
                            /\ handles'[Iso(t)][h] = op[t].src.args[k]]_vars

C13_ArgumentsOutliveCall ==
    /\ res.name = "evaluate" /\ res.src = SrcCallF
    /\ Len(res.calls) = 1 /\ res.calls[1].argc = 2
    /\ \A k \in 1..2 :
          handles[Iso(res.t)][res.calls[1].values[k]] = SrcCallF.args[k]

Disposals == {"disposeValue", "disposeContext", "disposeTemplate",
              "disposeIsolate"}

\* Nothing of isolate i has been disposed before what depends on it: the
\* value handles before the context, the context before the template, and
\* all of them before the isolate.
InOrder(i) ==
    /\ ctxState[i] = "disposed" => Live(handles[i]) = {}
    /\ tmplState[i] = "disposed" =>
          ctxState[i] # "live" /\ Live(handles[i]) = {}
    /\ isoState[i] = "disposed" =>
          tmplState[i] # "live" /\ ctxState[i] # "live" /\ Live(handles[i]) = {}

\* C14: a dispose step that keeps the order value handles, context,
\* template, isolate uses nothing that was released, releases nothing that
\* is in use, and leaves the process running.
C14_OrderedDisposeSafe ==
    [][\A i \in Isolates :
          (/\ res'.name \in Disposals /\ Iso(res'.t) = i
           /\ InOrder(i) /\ InOrder(i)') =>
              /\ eff'.misused = {}
              /\ \A u \in AllThreads : pc'[u] # "dead"]_vars

C14_AllDisposedInOrder ==
    /\ res.name = "disposeIsolate" /\ eff.misused = {}
    /\ isoState[1] = "disposed"
    /\ tmplState[1] = "disposed" /\ ctxState[1] = "disposed"
    /\ slots[1][1] # 0
    /\ \E h \in 1..MaxHandles : handles[1][h] = Disposed
    /\ Live(handles[1]) = {}

Guarded == {"createTemplate", "createContext", "createFunction", "evaluate",
            "getProperty", "valueToInt", "getUtf8StringLength",
            "copyUtf8String"} \cup TypeChecks

\* The constructions acq begin with the lock, enter the isolate once after
\* it, and open every handle scope after that.
LockThenIsolateThenHandles(acq) ==
    /\ acq # <<>> /\ acq[1] \in {"Locker", "Locker+"}
    /\ \E i \in 2..Len(acq) :
          /\ acq[i] = "Isolate::Scope"
          /\ \A k \in 1..Len(acq) :
                /\ acq[k] = "Isolate::Scope" => k = i
                /\ acq[k] = "HandleScope" => k > i
                /\ acq[k] \in {"Locker", "Locker+"} => k = 1
          /\ \E k \in (i + 1)..Len(acq) : acq[k] = "HandleScope"

\* The objects a thread has while its dispatch function runs: those of the
\* evaluate that called back, and the HandleScope of callback.
DispatchStack ==
    << "Locker+", "TryCatch", "Isolate::Scope", "HandleScope",
       "Context::Scope", "HandleScope" >>

\* C15: every guarded operation that returns, by its success or its failure
\* path, constructed its lock, then its isolate scope, then its handle scope,
\* and destroyed what it constructed in the reverse order; a thread back in
\* the host holds no lock and no scope, and a thread back in its dispatch
\* function holds what it held when the function was entered.
C15_GuardUnwound ==
    /\ res.name \in Guarded =>
          /\ LockThenIsolateThenHandles(eff.acquired)
          /\ Len(eff.released) = Len(eff.acquired)
          /\ \A k \in 1..Len(eff.acquired) :
                eff.released[k] = eff.acquired[Len(eff.acquired) + 1 - k]
    /\ \A t \in AllThreads :
          /\ pc[t] = "idle" => guard[t] = <<>> /\ lockOwner[Iso(t)] # t
          /\ pc[t] = "dispatch" =>
                guard[t] = DispatchStack /\ lockOwner[Iso(t)] = t

C15_FailureUnwound ==
    /\ res.name = "getProperty" /\ res.ret = 0 /\ res.wrote
    /\ eff.released = << "HandleScope", "Isolate::Scope", "TryCatch", "Locker+" >>
    /\ guard[1] = <<>> /\ lockOwner[1] = 0

Introspections == {"valueToInt", "getUtf8StringLength", "copyUtf8String"}
                      \cup TypeChecks

\* The step leaves the engine as it was: the handles and what they designate,
\* the template, the context and its global variable, and the isolate; and
\* no function of a script ran in it.
EngineUntouched ==
    /\ handles' = handles /\ ctxGlobal' = ctxGlobal
    /\ slots' = slots /\ ctxFuncs' = ctxFuncs
    /\ tmplState' = tmplState /\ ctxState' = ctxState
    /\ isoState' = isoState
    /\ ~eff'.ran

\* An object whose conversion to a primitive is a function of the script.
ConvertsItself(v) == v.k = "object" /\ v.o = "converter"

\* C16 as stated: every introspection that returns, on every handle, handles
\* of objects included, ran no script code and left the engine as it was.
C16_IntrospectionReadOnly ==
    [][res'.name \in Introspections => EngineUntouched]_vars

\* C16, amended: every type test that returns, and every valueToInt,
\* getUtf8StringLength and copyUtf8String that returns on a handle of
\* anything but an object with a conversion of its own, ran no script code
\* and left the engine as it was.
C16_ReadOnlyUnlessConverted ==
    [][(/\ res'.name \in Introspections
        /\ \/ res'.name \in TypeChecks
           \/ ~ConvertsItself(handles[Iso(res'.t)][res'.h]))
          => EngineUntouched]_vars

C16_TextReadBesideConverter ==
    /\ res.name = "copyUtf8String" /\ eff.count = 2
    /\ handles[1][res.h] = String(<<111, 107>>)
    /\ buffer.bytes[1] = 111 /\ buffer.bytes[2] = 107
    /\ \E h \in 1..MaxHandles : ConvertsItself(handles[1][h])
    /\ ctxGlobal[1] = 7

IsolateView(i) ==
    << lockOwner[i], tmplState[i], slots[i], ctxState[i], ctxFuncs[i],
       ctxGlobal[i], handles[i], isoState[i],
       [t \in ThreadsOn(i) |->
           << pc[t], guard[t], op[t], nop[t], nested[t], sink[t], calls[t],
              want[t] >>] >>

\* Which of its steps thread t can take.
IsoEnabled(t) ==
    << ENABLED CreateTemplateCall(t), ENABLED CreateTemplate(t),
       ENABLED CreateContextCall(t), ENABLED CreateContext(t),
       ENABLED Lock(t), ENABLED EvaluateCall(t),
       ENABLED Evaluate(t, IsoScripts(t)), ENABLED ValueToIntCall(t),
       ENABLED ValueToInt(t), ENABLED DisposeValue(t) >>

\* C18: no step changes anything of more than one isolate; a thread that
\* waits for the lock of its isolate can take it whenever no thread of that
\* isolate owns it, whoever owns another isolate; and a step on one isolate
\* neither enables nor disables any step of the thread of another.
C18_IsolatesIndependent ==
    [][/\ \E i \in Isolates :
              \A j \in Isolates \ {i} : IsolateView(j)' = IsolateView(j)
       /\ \A t \in IsoThreads :
              (pc[t] = "calling" /\ lockOwner[Iso(t)] = 0) => ENABLED Lock(t)
       /\ \A t \in IsoThreads :
              IsolateView(Iso(t))' = IsolateView(Iso(t)) =>
                  IsoEnabled(t)' = IsoEnabled(t)]_vars

C18_BothIsolatesHeld ==
    /\ lockOwner[1] = 1 /\ lockOwner[2] = Other
    /\ Inside(1) = "evaluate" /\ Inside(Other) = "valueToInt"
    /\ pc[2] = "calling" /\ ~ENABLED Lock(2)
    /\ ctxGlobal[1] = 5 /\ ctxGlobal[2] = 7
    /\ Live(handles[1]) # {} /\ Live(handles[2]) # {}

\* C19: an evaluate or a getProperty that returns a value handle has not
\* written *exception, whether or not the caller gave a place for it: what
\* the place held before the call it holds after.
C19_SuccessLeavesException ==
    (res.name \in Outputs /\ res.ret # 0) =>
        /\ ~res.wrote /\ res.exc = 0
        /\ res.ret \in Live(handles[Iso(res.t)])

C19_PropertyReadNothingWritten ==
    /\ res.name = "getProperty" /\ res.key = "a" /\ ~res.excNull
    /\ res.ret # 0 /\ handles[Iso(res.t)][res.ret] = Number(1)
    /\ ~res.wrote
====
